---- MODULE Spec2Model ----
(***************************************************************************)
(* News ingestion pipeline (src/main.py, src/rss_ingest.py).               *)
(*                                                                         *)
(* Two scripts share one store (tables news and sources).  main.py         *)
(* classifies through a remote endpoint, rss_ingest.py through a local     *)
(* model; the per-feed / per-item loop of main() is the same in both.      *)
(*                                                                         *)
(* Representation of Python values:                                        *)
(*   str            a tuple of characters, "" is << >>.  A printable ASCII *)
(*                  character and \t \n \r \f stand for themselves, every  *)
(*                  other character is written "U+XXXX" (its code point).  *)
(*                  The strings of the model are over Basic Latin, Latin-1 *)
(*                  Supplement and Latin Extended-A (U+0000..U+017F) and   *)
(*                  the whitespace characters of Unicode.                  *)
(*   None           the tuple None == <<"None">>, which is no str          *)
(*   a value that is no str and has no lower(): NonStr == <<"int">> when   *)
(*                  it is truthy (5, true, [1]), FalsyNonStr == <<"zero">> *)
(*                  when it is falsy (0, 0.0, false, [], {})               *)
(*   bytes          a predicted class that is no str but has lower() and   *)
(*                  strip() (bytes, numpy.bytes_): Bytes(s), the tuple s   *)
(*                  of its bytes behind the mark "bytes"                   *)
(*   content        the article text is represented by its length, the     *)
(*                  only thing the pipeline reads of it besides passing    *)
(*                  it on; a missing content (None) is NoContent == -1     *)
(*   NULL id        Null == 0 (the store assigns ids from 1)               *)
(***************************************************************************)
EXTENDS Integers, Sequences, FiniteSets, TLC

\* ------------------------------------------------------------------ bounds
MaxRuns == 2        \* script invocations per instance
NumFeeds == 2       \* feeds of the registry a run iterates (a prefix of it)
MaxEntries == 2     \* entries a parsed feed delivers

\* ------------------------------------------------------- Python value model
None == <<"None">>
NonStr == <<"int">>
FalsyNonStr == <<"zero">>
NoContent == -1
Null == 0

Bytes(s) == <<"bytes">> \o s

IsBytes(v) == Len(v) > 0 /\ v[1] = "bytes"

BytesBody(v) == Tail(v)

IsStr(s) == s \notin { None, NonStr, FalsyNonStr } /\ ~IsBytes(s)

\* Python truthiness: None, "", b"" and 0, false, [], {} are falsy
Truthy(s) == s \notin { None, << >>, FalsyNonStr, Bytes(<< >>) }

Min(a, b) == IF a < b THEN a ELSE b

UpperCase == << "A","B","C","D","E","F","G","H","I","J","K","L","M",
                "N","O","P","Q","R","S","T","U","V","W","X","Y","Z" >>
LowerCase == << "a","b","c","d","e","f","g","h","i","j","k","l","m",
                "n","o","p","q","r","s","t","u","v","w","x","y","z" >>

\* the characters of U+0080..U+017F that str.lower() changes, and what it
\* changes them to (U+0130 becomes two characters)
UpperOther ==
    <<
      "U+00C0", "U+00C1", "U+00C2", "U+00C3", "U+00C4", "U+00C5",
      "U+00C6", "U+00C7", "U+00C8", "U+00C9", "U+00CA", "U+00CB",
      "U+00CC", "U+00CD", "U+00CE", "U+00CF", "U+00D0", "U+00D1",
      "U+00D2", "U+00D3", "U+00D4", "U+00D5", "U+00D6", "U+00D8",
      "U+00D9", "U+00DA", "U+00DB", "U+00DC", "U+00DD", "U+00DE",
      "U+0100", "U+0102", "U+0104", "U+0106", "U+0108", "U+010A",
      "U+010C", "U+010E", "U+0110", "U+0112", "U+0114", "U+0116",
      "U+0118", "U+011A", "U+011C", "U+011E", "U+0120", "U+0122",
      "U+0124", "U+0126", "U+0128", "U+012A", "U+012C", "U+012E",
      "U+0130", "U+0132", "U+0134", "U+0136", "U+0139", "U+013B",
      "U+013D", "U+013F", "U+0141", "U+0143", "U+0145", "U+0147",
      "U+014A", "U+014C", "U+014E", "U+0150", "U+0152", "U+0154",
      "U+0156", "U+0158", "U+015A", "U+015C", "U+015E", "U+0160",
      "U+0162", "U+0164", "U+0166", "U+0168", "U+016A", "U+016C",
      "U+016E", "U+0170", "U+0172", "U+0174", "U+0176", "U+0178",
      "U+0179", "U+017B", "U+017D" >>

LowerOther ==
    <<
      <<"U+00E0">>, <<"U+00E1">>, <<"U+00E2">>, <<"U+00E3">>,
      <<"U+00E4">>, <<"U+00E5">>, <<"U+00E6">>, <<"U+00E7">>,
      <<"U+00E8">>, <<"U+00E9">>, <<"U+00EA">>, <<"U+00EB">>,
      <<"U+00EC">>, <<"U+00ED">>, <<"U+00EE">>, <<"U+00EF">>,
      <<"U+00F0">>, <<"U+00F1">>, <<"U+00F2">>, <<"U+00F3">>,
      <<"U+00F4">>, <<"U+00F5">>, <<"U+00F6">>, <<"U+00F8">>,
      <<"U+00F9">>, <<"U+00FA">>, <<"U+00FB">>, <<"U+00FC">>,
      <<"U+00FD">>, <<"U+00FE">>, <<"U+0101">>, <<"U+0103">>,
      <<"U+0105">>, <<"U+0107">>, <<"U+0109">>, <<"U+010B">>,
      <<"U+010D">>, <<"U+010F">>, <<"U+0111">>, <<"U+0113">>,
      <<"U+0115">>, <<"U+0117">>, <<"U+0119">>, <<"U+011B">>,
      <<"U+011D">>, <<"U+011F">>, <<"U+0121">>, <<"U+0123">>,
      <<"U+0125">>, <<"U+0127">>, <<"U+0129">>, <<"U+012B">>,
      <<"U+012D">>, <<"U+012F">>, <<"i", "U+0307">>, <<"U+0133">>,
      <<"U+0135">>, <<"U+0137">>, <<"U+013A">>, <<"U+013C">>,
      <<"U+013E">>, <<"U+0140">>, <<"U+0142">>, <<"U+0144">>,
      <<"U+0146">>, <<"U+0148">>, <<"U+014B">>, <<"U+014D">>,
      <<"U+014F">>, <<"U+0151">>, <<"U+0153">>, <<"U+0155">>,
      <<"U+0157">>, <<"U+0159">>, <<"U+015B">>, <<"U+015D">>,
      <<"U+015F">>, <<"U+0161">>, <<"U+0163">>, <<"U+0165">>,
      <<"U+0167">>, <<"U+0169">>, <<"U+016B">>, <<"U+016D">>,
      <<"U+016F">>, <<"U+0171">>, <<"U+0173">>, <<"U+0175">>,
      <<"U+0177">>, <<"U+00FF">>, <<"U+017A">>, <<"U+017C">>,
      <<"U+017E">> >>

\* the characters str.strip() removes (str.isspace)
Whitespace ==
    {
      "\t", "\n", "U+000B", "\f", "\r", "U+001C",
      "U+001D", "U+001E", "U+001F", " ", "U+0085", "U+00A0",
      "U+1680", "U+2000", "U+2001", "U+2002", "U+2003", "U+2004",
      "U+2005", "U+2006", "U+2007", "U+2008", "U+2009", "U+200A",
      "U+2028", "U+2029", "U+202F", "U+205F", "U+3000" }

\* the bytes bytes.strip() removes
BytesWhitespace == { " ", "\t", "\n", "\r", "\f", "U+000B" }

\* str.lower() on one character: a str of one or two characters
LowerChar(c) ==
    IF \E i \in 1..26 : UpperCase[i] = c
    THEN << LowerCase[CHOOSE i \in 1..26 : UpperCase[i] = c] >>
    ELSE IF \E i \in 1..Len(UpperOther) : UpperOther[i] = c
    THEN LowerOther[CHOOSE i \in 1..Len(UpperOther) : UpperOther[i] = c]
    ELSE << c >>

\* str.lower()
Lower(s) ==
    LET low[i \in 0..Len(s)] ==
            IF i = 0 THEN << >> ELSE low[i - 1] \o LowerChar(s[i])
    IN  low[Len(s)]

\* bytes.lower(): the ASCII letters only
LowerBytes(s) ==
    [ i \in 1..Len(s) |->
        IF \E j \in 1..26 : UpperCase[j] = s[i]
        THEN LowerCase[CHOOSE j \in 1..26 : UpperCase[j] = s[i]]
        ELSE s[i] ]

\* s without its leading and trailing characters of the set ws
StripOf(s, ws) ==
    LET keep == { i \in 1..Len(s) : s[i] \notin ws } IN
    IF keep = {} THEN << >>
    ELSE LET lo == CHOOSE i \in keep : \A j \in keep : i <= j
             hi == CHOOSE i \in keep : \A j \in keep : j <= i
         IN  SubSeq(s, lo, hi)

\* str.strip(): drop leading and trailing whitespace
Strip(s) == StripOf(s, Whitespace)

\* ------------------------------------------------------------ configuration
MAX_CHARS == 2000
MinContentLen == 300
EntryCap == 15

Variants == { "main", "rss_ingest" }

\* RSS_SOURCES: the feed names in dict (insertion) order
RSS_SOURCES(v) ==
    IF v = "main"
    THEN << "BBC Arabic", "France24 Arabic", "RT Arabic", "Alsharq (Qatar)",
            "Al-Masry Al-Youm", "Masrawy", "Al Jadeed TV", "SarayNews",
            "Yemenat News", "Yemen Voice", "Yemen Saeed", "Okaz", "Al Madina",
            "Al Bilad", "Arab News", "Kooora", "FilGoal", "YallaKora",
            "beIN Sports Arabic" >>
    ELSE << "BBC Arabic", "France24 Arabic", "Alsharq (Qatar)", "RT Arabic",
            "Al-Masry Al-Youm", "Al Jadeed TV", "Masrawy", "SarayNews" >>

Politics == << "p","o","l","i","t","i","c","s" >>
Sports == << "s","p","o","r","t","s" >>
Technology == << "t","e","c","h","n","o","l","o","g","y" >>
Health == << "h","e","a","l","t","h" >>
Economy == << "e","c","o","n","o","m","y" >>
Culture == << "c","u","l","t","u","r","e" >>
Tech == << "t","e","c","h" >>
Finance == << "f","i","n","a","n","c","e" >>
Economics == << "e","c","o","n","o","m","i","c","s" >>
Unknown == << "u","n","k","n","o","w","n" >>

\* ALLOWED_CATEGORIES as a set of <<name, id>> pairs
ALLOWED_CATEGORIES ==
    { <<Politics, 1>>, <<Sports, 2>>, <<Technology, 3>>,
      <<Health, 4>>, <<Economy, 5>>, <<Culture, 6>> }

\* CATEGORY_MAPPING as a set of <<key, name>> pairs
CATEGORY_MAPPING ==
    { <<Tech, Technology>>, <<Technology, Technology>>,
      <<Finance, Economy>>, <<Economics, Economy>>, <<Economy, Economy>>,
      <<Politics, Politics>>, <<Sports, Sports>>,
      <<Health, Health>>, <<Culture, Culture>> }

\* mutant: a miss falls back to a default category (dict.get(key, "politics"))
MappingGetMutDefault(key) ==
    IF \E e \in CATEGORY_MAPPING : e[1] = key
    THEN (CHOOSE e \in CATEGORY_MAPPING : e[1] = key)[2]
    ELSE Politics

\* dict.get(key): the value, or None
MappingGet(key) ==
    IF \E e \in CATEGORY_MAPPING : e[1] = key
    THEN (CHOOSE e \in CATEGORY_MAPPING : e[1] = key)[2]
    ELSE None

\* name in ALLOWED_CATEGORIES
InAllowed(name) == \E e \in ALLOWED_CATEGORIES : e[1] = name

\* mutant: the ids are taken one too high
AllowedIdMutShifted(name) == (CHOOSE e \in ALLOWED_CATEGORIES : e[1] = name)[2] + 1

\* ALLOWED_CATEGORIES[name]
AllowedId(name) == (CHOOSE e \in ALLOWED_CATEGORIES : e[1] = name)[2]

\* mutant: status is set to "published" outside the if
ResolveMutPublishAlways(predicted_raw) ==
    LET mapped_category == MappingGet(predicted_raw) IN
    IF Truthy(mapped_category) /\ InAllowed(mapped_category)
    THEN [category_id |-> AllowedId(mapped_category), status |-> "published"]
    ELSE [category_id |-> Null, status |-> "published"]

\* lines 198-205: CATEGORY_MAPPING.get, the double check, status and id
Resolve(predicted_raw) ==
    LET mapped_category == MappingGet(predicted_raw) IN
    IF Truthy(mapped_category) /\ InAllowed(mapped_category)
    THEN [category_id |-> AllowedId(mapped_category), status |-> "published"]
    ELSE [category_id |-> Null, status |-> "pending"]

\* --------------------------------------------------------------- classifier
\* What the classifier backend does on one call.
\*   main.py       kind "timeout"    requests.post raises
\*                 kind "http_error" raise_for_status raises
\*                 kind "bad_json"   response.json() raises
\*                 kind "not_dict"   the JSON body is no object (data.get raises)
\*                 kind "json"       a JSON object with fields prediction, label
\*   rss_ingest.py kind "raise"      vectorizer.transform / model.predict raises
\*                 kind "predict"    model.predict(vec)[0] is field prediction
Answer(k, pr, lb) == [kind |-> k, prediction |-> pr, label |-> lb]

\* mutant: the label is trimmed but not lowercased
ClassifyRemoteMutNoLower(text, ans) ==
    LET short_text == Min(text, MAX_CHARS)
        prediction == IF Truthy(ans.prediction) THEN ans.prediction ELSE ans.label
        failed == \/ ans.kind # "json"
                  \/ (Truthy(prediction) /\ ~IsStr(prediction))
    IN  [ raised |-> FALSE,
          submitted |-> short_text,
          label |-> IF failed \/ ~Truthy(prediction)
                    THEN Unknown
                    ELSE Strip(prediction) ]

\* main.py classify: every failure is caught and gives "unknown"
ClassifyRemote(text, ans) ==
    LET short_text == Min(text, MAX_CHARS)
        prediction == IF Truthy(ans.prediction) THEN ans.prediction ELSE ans.label
        failed == \/ ans.kind # "json"
                  \/ (Truthy(prediction) /\ ~IsStr(prediction))
    IN  [ raised |-> FALSE,
          submitted |-> short_text,
          label |-> IF failed \/ ~Truthy(prediction)
                    THEN Unknown
                    ELSE Strip(Lower(prediction)) ]

\* rss_ingest.py classify: no try/except, the text is passed whole; a class
\* without lower() raises AttributeError, a bytes class is lowered and
\* stripped as bytes
ClassifyLocal(text, ans) ==
    LET pr == ans.prediction
        raises == ans.kind # "predict" \/ (~IsStr(pr) /\ ~IsBytes(pr))
    IN  [ raised |-> raises,
          submitted |-> text,
          label |-> IF raises THEN None
                    ELSE IF IsBytes(pr)
                    THEN Bytes(StripOf(LowerBytes(BytesBody(pr)), BytesWhitespace))
                    ELSE Strip(Lower(pr)) ]

Classify(v, text, ans) ==
    IF v = "main" THEN ClassifyRemote(text, ans) ELSE ClassifyLocal(text, ans)

\* ------------------------------------------------------------ article fetch
\* fetch_full_article: the page's cleaned paragraph text (its length), or
\* None when requests.get, raise_for_status or the parse raises
FetchFullArticle(resp) ==
    IF resp.outcome = "ok" THEN resp.content ELSE NoContent

\* mutant: the length test is off by one (len(content) < 299)
ThinContentMutOffByOne(content) ==
    content = NoContent \/ content = 0 \/ content < MinContentLen - 1

\* mutant: None is not tested (len(content) < 300 alone)
ThinContentMutNoNoneTest(content) ==
    content # NoContent /\ content < MinContentLen

\* line 194: not content or len(content) < 300
ThinContent(content) ==
    content = NoContent \/ content = 0 \/ content < MinContentLen

\* mutant: "and" for "or" (not title and not link)
MissingFieldsMutAnd(title, link) == ~Truthy(title) /\ ~Truthy(link)

\* line 187: not title or not link
MissingFields(title, link) == ~Truthy(title) \/ ~Truthy(link)

\* -------------------------------------------------------------------- store
\* mutant: the lookup only sees the newest row
AlreadyExistsMutNewestOnly(table, title) ==
    Len(table) > 0 /\ table[Len(table)].title = title

\* mutant: the lookup finds nothing
AlreadyExistsMutNever(table, title) == FALSE

\* already_exists: select id from news where title = ? limit 1
AlreadyExists(table, title) == \E i \in 1..Len(table) : table[i].title = title

\* mutant: the lookup finds nothing
SourceLookupMutEmpty(table, name) == {}

\* get_or_create_source, first request (lines 132-136):
\* select id from sources where name = ? limit 1  (the rows it may return)
SourceLookup(table, name) == { i \in 1..Len(table) : table[i].name = name }

\* mutant: the id of the row before the new one is returned
SourceInsertMutStaleId(table, name) ==
    [ sources |-> Append(table, [ id |-> Len(table) + 1, name |-> name,
                                  source_type_id |-> 1 ]),
      id |-> Len(table) ]

\* get_or_create_source, second request (lines 141-146): the row is inserted,
\* the table afterwards and the id the store gave the row
SourceInsert(table, name) ==
    [ sources |-> Append(table, [ id |-> Len(table) + 1, name |-> name,
                                  source_type_id |-> 1 ]),
      id |-> Len(table) + 1 ]

\* mutant: feed.entries is iterated without the slice
ExaminedMutNoCap(n) == n

\* feed.entries[:15] of a feed of n entries
Examined(n) == Min(n, EntryCap)

\* the row main() inserts into news (lines 207-216); published_at and
\* primary_image are not read by the pipeline and are left out
NewsRow(table, title, content, category_id, source_id, status) ==
    [ id |-> Len(table) + 1, title |-> title, content |-> content,
      category_id |-> category_id, source_id |-> source_id,
      status |-> status, is_external |-> TRUE ]

\* --------------------------------------------------------- configuration
\* The process environment: whether SUPABASE_URL and SUPABASE_KEY are set.
Environ(u, k) == [SUPABASE_URL |-> u, SUPABASE_KEY |-> k]

Environs == { Environ(u, k) : u, k \in BOOLEAN }

\* main.py lines 13-14: os.environ[...] raises KeyError on an absent name;
\* rss_ingest.py lines 14-21: os.getenv(name, default) falls back to the
\* endpoint and the key written in the script
ReadConfig(v, env) ==
    IF v = "main"
    THEN [ raised |-> ~env.SUPABASE_URL \/ ~env.SUPABASE_KEY,
           url |-> IF env.SUPABASE_URL THEN "env" ELSE "unset",
           key |-> IF env.SUPABASE_URL /\ env.SUPABASE_KEY THEN "env" ELSE "unset" ]
    ELSE [ raised |-> FALSE,
           url |-> IF env.SUPABASE_URL THEN "env" ELSE "default",
           key |-> IF env.SUPABASE_KEY THEN "env" ELSE "default" ]

\* rss_ingest.py lines 72-73: joblib.load raises when an artefact (model,
\* vectorizer) cannot be loaded; main.py loads nothing
LoadRaises(v, artefacts) == v = "rss_ingest" /\ ~artefacts

\* ------------------------------------------------------------- environment
\* What the collaborators may deliver: feed entries (title, link), the
\* article page behind a link, the classifier backend's behaviour.
Titles == { None, << >>, <<"A">>, <<"B">> }
Links == { None, << >>, <<"u">> }

\* how a fetch can fail inside the try block: requests.get raises (network,
\* timeout), raise_for_status raises, the parse or the extraction raises
FetchFailures == { "network", "status", "parse" }

\* a failed fetch, or a page whose cleaned text has one of the given lengths
FetchResponses(lens) ==
    { [outcome |-> f, content |-> NoContent] : f \in FetchFailures }
        \cup { [outcome |-> "ok", content |-> n] : n \in lens }

RawLabels ==
    { <<"T","e","c","h">>,
      <<" ","t","e","c","h","n","o","l","o","g","y"," ">>,
      <<"F","I","N","A","N","C","E">>,
      <<"e","c","o","n","o","m","i","c","s","\n">>,
      <<"E","c","o","n","o","m","y">>,
      <<"p","o","l","i","t","i","c","s">>,
      <<"\t","S","p","o","r","t","s">>,
      <<"h","e","a","l","t","h">>,
      <<"C","u","l","t","u","r","e">>,
      <<"u","n","k","n","o","w","n">>,
      <<"w","e","a","t","h","e","r">>,
      <<"t","e","c","h","s">>,
      <<" "," ">>,
      <<"t","e","c","h","U+000B">>,
      <<"U+00A0","H","e","a","l","t","h","U+2028">>,
      <<"S","A","N","T","U+00C9">> }

\* the labels the pipeline runs draw from (three of the categories, one miss)
FewLabels ==
    { <<"T","e","c","h">>,
      <<"F","I","N","A","N","C","E">>,
      <<"w","e","a","t","h","e","r">> }

\* values a backend may deliver in place of a label: "", a number, 0, bytes
OddValues ==
    { << >>, NonStr, FalsyNonStr,
      Bytes(<<"T","e","c","h">>),
      Bytes(<<" ","s","p","o","r","t","s","U+00A0">>) }

\* the backend's possible behaviours, the values it delivers drawn from the
\* set values (a JSON body holds no bytes; an absent field reads as None)
Answers(v, values) ==
    LET json == { x \in values : ~IsBytes(x) } \cup { None } IN
    IF v = "main"
    THEN { Answer(k, None, None) : k \in {"timeout", "http_error", "bad_json", "not_dict"} }
         \cup { Answer("json", pr, None) : pr \in json }
         \cup { Answer("json", pr, l) :
                    pr \in { x \in json : ~Truthy(x) }, l \in json \ { None } }
    ELSE { Answer("raise", None, None) }
         \cup { Answer("predict", l, None) : l \in values }

\* -------------------------------------------------------------------- state
VARIABLES
    news,       \* table news: the rows in insertion order
    sources,    \* table sources: the rows in insertion order
    proc,       \* per pipeline instance: the position and locals of main()
    cfg         \* the bounds of the exploration (fixed by Init): which
                \* instances run, how often, over how many feeds and entries,
                \* and what pages and labels the collaborators deliver

vars == << news, sources, proc, cfg >>

Procs == { 1, 2 }

\* observations of the item main() handled last in the current feed (history,
\* not program state): what the collaborators delivered for it, which path it
\* took (kind), the id of the news row inserted for it (row), the calls made
\* for it in order (ops: "dedupe" is already_exists, "fetch" is
\* fetch_full_article, "classify", "insert") and the number of news rows
\* there were when already_exists looked (seen)
NoLast ==
    [ kind |-> "none", title |-> None, link |-> None, content |-> NoContent,
      answer |-> Answer("none", None, None), label |-> None,
      submitted |-> NoContent, row |-> Null, ops |-> << >>, seen |-> 0,
      fetch |-> "none" ]

\* error: what ended the process with a traceback ("load", "store",
\* "classify"), "none" otherwise
\* tape (history): what the feeds and the article fetches of the first run
\* delivered, feed by feed and entry by entry, kept when cfg.replay is set
\* mine (history): the news rows this run inserted, each with the number of
\* rows there were when its title was looked up
ProcInit ==
    [ pc |-> "idle", variant |-> "main", runs |-> 0, feedIdx |-> 0,
      source_id |-> Null, lookup |-> "none", entries |-> 0, itemIdx |-> 0,
      title |-> None, added |-> 0, last |-> NoLast, mine |-> {},
      url |-> "unset", key |-> "unset", error |-> "none", tape |-> << >> ]

\* cfg.environs   the environments a process may be started in
\* cfg.artefacts  whether the model artefacts can be loaded at a start
\* cfg.replay     after a completed run the same script is run again and the
\*                 feeds and the article fetches deliver what they delivered
\*                 to the first run
\* cfg.feedLens   the numbers of entries a parsed feed may deliver
\* cfg.freeEntries the first entries of a feed are arbitrary; the entries
\*                 after them are well-formed articles with titles of their
\*                 own (TitleNo), a page of MinContentLen characters and the
\*                 label "Tech"

\* one instance, run after run
SeqCfg ==
    [ instances |-> {1}, maxRuns |-> MaxRuns, numFeeds |-> NumFeeds,
      replay |-> FALSE,
      environs |-> { Environ(TRUE, TRUE) }, artefacts |-> { TRUE },
      feedLens |-> 0..MaxEntries, freeEntries |-> MaxEntries,
      labels |-> FewLabels \cup { NonStr },
      pageLens |-> { 0, MinContentLen - 1, MinContentLen } ]

\* one instance, one run over one feed, every label and long pages
LabelCfg ==
    [ instances |-> {1}, maxRuns |-> 1, numFeeds |-> 1,
      replay |-> FALSE,
      environs |-> Environs, artefacts |-> BOOLEAN,
      feedLens |-> 0..MaxEntries, freeEntries |-> MaxEntries,
      labels |-> RawLabels \cup OddValues,
      pageLens |-> { MinContentLen, MinContentLen + 10, MAX_CHARS, MAX_CHARS + 1 } ]

\* one instance, one run over one feed of about EntryCap entries
CapCfg ==
    [ instances |-> {1}, maxRuns |-> 1, numFeeds |-> 1,
      replay |-> FALSE,
      environs |-> Environs, artefacts |-> BOOLEAN,
      feedLens |-> (EntryCap - 1)..(EntryCap + MaxEntries), freeEntries |-> MaxEntries,
      labels |-> { <<"T","e","c","h">> },
      pageLens |-> { MinContentLen } ]

\* two instances, one run each over one feed, against the same store; a
\* feed has one entry or is full, its first entry is arbitrary, the later
\* ones are well-formed
ConcCfg ==
    [ instances |-> Procs, maxRuns |-> 1, numFeeds |-> 1,
      replay |-> FALSE,
      environs |-> { Environ(TRUE, TRUE) }, artefacts |-> { TRUE },
      feedLens |-> { 1, MaxEntries }, freeEntries |-> 1,
      labels |-> { <<"T","e","c","h">> },
      pageLens |-> { MinContentLen } ]

\* one instance, a completed run and the same run again; a feed is empty or
\* full, its first entry is arbitrary, the later ones are well-formed. Only
\* the feed entries and the fetch results of the second run are those of the
\* first: its environment, its model files and the store's readiness to
\* answer are as free as in any run
ReplayCfg ==
    [ instances |-> {1}, maxRuns |-> MaxRuns, numFeeds |-> NumFeeds,
      replay |-> TRUE,
      environs |-> Environs, artefacts |-> BOOLEAN,
      feedLens |-> { 0, MaxEntries }, freeEntries |-> 1,
      labels |-> { <<"T","e","c","h">> },
      pageLens |-> { MinContentLen - 1, MinContentLen } ]

Init ==
    /\ news = << >>
    /\ sources = << >>
    /\ proc = [p \in Procs |-> ProcInit]
    /\ cfg = SeqCfg

InitLabels ==
    /\ news = << >>
    /\ sources = << >>
    /\ proc = [p \in Procs |-> ProcInit]
    /\ cfg = LabelCfg

InitCap ==
    /\ news = << >>
    /\ sources = << >>
    /\ proc = [p \in Procs |-> ProcInit]
    /\ cfg = CapCfg

InitConc ==
    /\ news = << >>
    /\ sources = << >>
    /\ proc = [p \in Procs |-> ProcInit]
    /\ cfg = ConcCfg

InitReplay ==
    /\ news = << >>
    /\ sources = << >>
    /\ proc = [p \in Procs |-> ProcInit]
    /\ cfg = ReplayCfg

\* the first run is recorded, the later runs are fed from the record
Recording(s) == cfg.replay /\ s.runs = 1

Replaying(s) == cfg.replay /\ s.runs > 1

\* the recorded entry the instance is at
TapeItem(s) == s.tape[s.feedIdx].items[s.itemIdx + 1]

\* t, the instance after an item handled as t.last tells, with the item on
\* the record
Taped(s, t) ==
    IF Recording(s)
    THEN [ t EXCEPT !.tape[Len(s.tape)].items =
               Append(s.tape[Len(s.tape)].items,
                      [ title |-> t.last.title, link |-> t.last.link,
                        resp |-> [ outcome |-> t.last.fetch,
                                   content |-> t.last.content ] ]) ]
    ELSE t

\* the title of the well-formed entry at position i (from 1) of a feed
TitleNo(i) == [j \in 1..(i + 1) |-> "x"]

\* what the collaborators may deliver for the entry the instance is at
FreeEntry(s) == s.itemIdx < cfg.freeEntries

EnvFeedLens(s) ==
    IF Replaying(s) THEN { s.tape[s.feedIdx + 1].n } ELSE cfg.feedLens

EnvTitles(s) ==
    IF Replaying(s) THEN { TapeItem(s).title }
    ELSE IF FreeEntry(s) THEN Titles ELSE { TitleNo(s.itemIdx + 1) }

EnvLinks(s) ==
    IF Replaying(s) THEN { TapeItem(s).link }
    ELSE IF FreeEntry(s) THEN Links ELSE { <<"u">> }

\* a link that was not fetched in the first run may deliver anything
EnvPages(s) ==
    IF Replaying(s) /\ TapeItem(s).resp.outcome # "none"
    THEN { TapeItem(s).resp }
    ELSE IF Replaying(s) \/ FreeEntry(s) THEN FetchResponses(cfg.pageLens)
    ELSE { [outcome |-> "ok", content |-> MinContentLen] }

EnvAnswers(s) ==
    IF Replaying(s) \/ FreeEntry(s) THEN Answers(s.variant, cfg.labels)
    ELSE { Answer(IF s.variant = "main" THEN "json" ELSE "predict",
                  <<"T","e","c","h">>, None) }

\* the feeds a run iterates
Feeds(v) == SubSeq(RSS_SOURCES(v), 1, Min(cfg.numFeeds, Len(RSS_SOURCES(v))))

\* the loop position after the item at itemIdx: the next item, or the next feed
Advance(s) ==
    [ s EXCEPT !.itemIdx = s.itemIdx + 1,
               !.title = None,
               !.pc = IF s.itemIdx + 1 < Examined(s.entries) THEN "items" ELSE "feeds" ]

\* ------------------------------------------------------------------ actions
\* the script is started: the configuration is read (lines 13-14); when that
\* raises the process ends there, otherwise the store client is created
\* (line 85), rss_ingest.py loads its artefacts (72-73), and main() is
\* entered (line 176)
StartRun(p, v) ==
    /\ p \in cfg.instances
    /\ proc[p].pc \in { "idle", "done", "aborted", "refused" }
    /\ proc[p].runs < cfg.maxRuns
    /\ ( cfg.replay /\ proc[p].runs > 0 )
           => proc[p].pc = "done" /\ v = proc[p].variant
    /\ \E env \in cfg.environs, artefacts \in cfg.artefacts :
         LET c == ReadConfig(v, env) IN
         proc' = [proc EXCEPT ![p] =
                    [ ProcInit EXCEPT !.pc = IF c.raised THEN "refused"
                                             ELSE IF LoadRaises(v, artefacts)
                                             THEN "aborted" ELSE "feeds",
                                      !.error = IF ~c.raised /\ LoadRaises(v, artefacts)
                                                THEN "load" ELSE "none",
                                      !.variant = v,
                                      !.runs = proc[p].runs + 1,
                                      !.url = c.url, !.key = c.key,
                                      !.tape = proc[p].tape ]]
    /\ UNCHANGED << news, sources, cfg >>

\* lines 179-180 and 132-139: the next feed is parsed and its name is looked
\* up in sources; limit(1) returns any one of the rows of that name
ParseFeed(p) ==
    LET s == proc[p]
        hit == SourceLookup(sources, Feeds(s.variant)[s.feedIdx + 1])
    IN
    /\ s.pc = "feeds"
    /\ s.feedIdx < Len(Feeds(s.variant))
    /\ \E n \in EnvFeedLens(s), id \in { sources[i].id : i \in hit } \cup { Null } :
         /\ (id = Null) <=> (hit = {})
         /\ proc' = [proc EXCEPT ![p] =
                       [ s EXCEPT !.feedIdx = s.feedIdx + 1,
                                  !.source_id = id,
                                  !.lookup = IF hit # {} THEN "hit" ELSE "miss",
                                  !.entries = n,
                                  !.tape = IF Recording(s)
                                           THEN Append(s.tape, [ n |-> n, items |-> << >> ])
                                           ELSE s.tape,
                                  !.last = NoLast,
                                  !.itemIdx = 0,
                                  !.pc = IF hit = {} THEN "source"
                                         ELSE IF Examined(n) > 0 THEN "items"
                                         ELSE "feeds" ]]
    /\ UNCHANGED << news, sources, cfg >>

\* lines 141-146 and 181: the name was not found, its row is inserted
InsertSource(p) ==
    LET s == proc[p]
        ins == SourceInsert(sources, Feeds(s.variant)[s.feedIdx])
    IN
    /\ s.pc = "source"
    /\ sources' = ins.sources
    /\ proc' = [proc EXCEPT ![p] =
                  [ s EXCEPT !.source_id = ins.id,
                             !.pc = IF Examined(s.entries) > 0 THEN "items"
                                    ELSE "feeds" ]]
    /\ UNCHANGED << news, cfg >>

\* the instance after its process ended with a traceback: the feed it was
\* at, the count and the history of its inserts are kept, the rest is gone
Dead(s, e) ==
    [ ProcInit EXCEPT !.pc = "aborted", !.error = e, !.variant = s.variant,
                      !.runs = s.runs, !.url = s.url, !.key = s.key,
                      !.feedIdx = s.feedIdx, !.added = s.added,
                      !.mine = s.mine, !.tape = s.tape ]

\* a store request raises (the store is unreachable, or rejects the request)
\* and main() is left: the select or the insert of get_or_create_source, the
\* select of already_exists, the insert into news
StoreAbort(p) ==
    LET s == proc[p] IN
    /\ \/ (s.pc = "feeds" /\ s.feedIdx < Len(Feeds(s.variant)))
       \/ s.pc = "source"
       \/ /\ s.pc = "items"
          /\ \E title \in EnvTitles(s), link \in EnvLinks(s) :
               ~MissingFields(title, link)
       \/ /\ s.pc = "fetch"
          /\ \E resp \in EnvPages(s), ans \in EnvAnswers(s) :
               /\ ~ThinContent(FetchFullArticle(resp))
               /\ ~Classify(s.variant, FetchFullArticle(resp), ans).raised
    /\ proc' = [proc EXCEPT ![p] = Dead(s, "store")]
    /\ UNCHANGED << news, sources, cfg >>

\* lines 184-188: an entry without title or link is skipped
SkipMissing(p) ==
    LET s == proc[p] IN
    /\ s.pc = "items"
    /\ \E title \in EnvTitles(s), link \in EnvLinks(s) :
         /\ MissingFields(title, link)
         /\ proc' = [proc EXCEPT ![p] = Taped(s,
                       [ Advance(s) EXCEPT !.last =
                           [ NoLast EXCEPT !.kind = "missing", !.title = title,
                                           !.link = link ]])]
    /\ UNCHANGED << news, sources, cfg >>

\* mutant: a duplicate title refreshes the stored row (update on conflict)
SkipDuplicateMutUpdates(p) ==
    LET s == proc[p] IN
    /\ s.pc = "items"
    /\ \E title \in EnvTitles(s), link \in EnvLinks(s) :
         /\ ~MissingFields(title, link)
         /\ AlreadyExists(news, title)
         /\ news' = [ i \in 1..Len(news) |->
                        IF news[i].title = title
                        THEN [ news[i] EXCEPT !.content = 0, !.status = "pending" ]
                        ELSE news[i] ]
         /\ proc' = [proc EXCEPT ![p] = Taped(s,
                       [ Advance(s) EXCEPT !.last =
                           [ NoLast EXCEPT !.kind = "duplicate", !.title = title,
                                           !.link = link, !.ops = <<"dedupe">>,
                                           !.seen = Len(news) ]])]
    /\ UNCHANGED << sources, cfg >>

\* lines 190-191: an entry whose title is in the news table is skipped
SkipDuplicate(p) ==
    LET s == proc[p] IN
    /\ s.pc = "items"
    /\ \E title \in EnvTitles(s), link \in EnvLinks(s) :
         /\ ~MissingFields(title, link)
         /\ AlreadyExists(news, title)
         /\ proc' = [proc EXCEPT ![p] = Taped(s,
                       [ Advance(s) EXCEPT !.last =
                           [ NoLast EXCEPT !.kind = "duplicate", !.title = title,
                                           !.link = link, !.ops = <<"dedupe">>,
                                           !.seen = Len(news) ]])]
    /\ UNCHANGED << news, sources, cfg >>

\* lines 184-191 passed: the entry goes on to the fetch
PassDedupe(p) ==
    LET s == proc[p] IN
    /\ s.pc = "items"
    /\ \E title \in EnvTitles(s), link \in EnvLinks(s) :
         /\ ~MissingFields(title, link)
         /\ ~AlreadyExists(news, title)
         /\ proc' = [proc EXCEPT ![p] =
                       [ s EXCEPT !.pc = "fetch", !.title = title,
                                  !.last = [ NoLast EXCEPT !.kind = "passed",
                                               !.title = title, !.link = link,
                                               !.ops = <<"dedupe">>,
                                               !.seen = Len(news) ]]]
    /\ UNCHANGED << news, sources, cfg >>

\* mutant: the counter is advanced on the thin-content skip as well
SkipThinMutCounts(p) ==
    LET s == proc[p] IN
    /\ s.pc = "fetch"
    /\ \E resp \in EnvPages(s) :
         LET content == FetchFullArticle(resp) IN
         /\ ThinContent(content)
         /\ proc' = [proc EXCEPT ![p] = Taped(s,
                       [ Advance(s) EXCEPT !.added = s.added + 1, !.last =
                           [ s.last EXCEPT !.kind = "thin", !.content = content,
                                            !.fetch = resp.outcome,
                                            !.ops = Append(s.last.ops, "fetch") ]])]
    /\ UNCHANGED << news, sources, cfg >>

\* mutant: the text is classified before its length is tested
SkipThinMutClassifiesFirst(p) ==
    LET s == proc[p] IN
    /\ s.pc = "fetch"
    /\ \E resp \in EnvPages(s) :
         LET content == FetchFullArticle(resp) IN
         /\ ThinContent(content)
         /\ proc' = [proc EXCEPT ![p] = Taped(s,
                       [ Advance(s) EXCEPT !.last =
                           [ s.last EXCEPT !.kind = "thin", !.content = content,
                                            !.fetch = resp.outcome,
                                            !.ops = s.last.ops \o <<"fetch", "classify">> ]])]
    /\ UNCHANGED << news, sources, cfg >>

\* lines 193-195: the article is fetched and is too thin
SkipThin(p) ==
    LET s == proc[p] IN
    /\ s.pc = "fetch"
    /\ \E resp \in EnvPages(s) :
         LET content == FetchFullArticle(resp) IN
         /\ ThinContent(content)
         /\ proc' = [proc EXCEPT ![p] = Taped(s,
                       [ Advance(s) EXCEPT !.last =
                           [ s.last EXCEPT !.kind = "thin", !.content = content,
                                            !.fetch = resp.outcome,
                                            !.ops = Append(s.last.ops, "fetch") ]])]
    /\ UNCHANGED << news, sources, cfg >>

\* lines 193-218: fetched, classified, resolved and inserted
Persist(p) ==
    LET s == proc[p] IN
    /\ s.pc = "fetch"
    /\ \E resp \in EnvPages(s), ans \in EnvAnswers(s) :
         LET content == FetchFullArticle(resp)
             cl == Classify(s.variant, content, ans)
             r == Resolve(cl.label)
         IN
         /\ ~ThinContent(content)
         /\ ~cl.raised
         /\ news' = Append(news, NewsRow(news, s.title, content, r.category_id,
                                         s.source_id, r.status))
         /\ proc' = [proc EXCEPT ![p] = Taped(s,
                       [ Advance(s) EXCEPT !.added = s.added + 1,
                           !.mine = s.mine \cup { [ row |-> Len(news) + 1,
                                                    seen |-> s.last.seen ] },
                           !.last = [ s.last EXCEPT !.kind = "inserted",
                                        !.ops = s.last.ops \o <<"fetch", "classify", "insert">>,
                                        !.content = content, !.answer = ans,
                                        !.fetch = resp.outcome,
                                        !.label = cl.label,
                                        !.submitted = cl.submitted,
                                        !.row = Len(news) + 1 ]])]
    /\ UNCHANGED << sources, cfg >>

\* line 197 (rss_ingest.py 164): classify raises and main() is left
ClassifyAbort(p) ==
    LET s == proc[p] IN
    /\ s.pc = "fetch"
    /\ \E resp \in EnvPages(s), ans \in EnvAnswers(s) :
         LET content == FetchFullArticle(resp)
             cl == Classify(s.variant, content, ans)
         IN
         /\ ~ThinContent(content)
         /\ cl.raised
         /\ proc' = [proc EXCEPT ![p] =
                       [ s EXCEPT !.pc = "aborted", !.error = "classify",
                           !.last = [ s.last EXCEPT !.kind = "raised",
                                        !.ops = s.last.ops \o <<"fetch", "classify">>,
                                        !.content = content, !.answer = ans,
                                        !.fetch = resp.outcome,
                                        !.submitted = cl.submitted ]]]
    /\ UNCHANGED << news, sources, cfg >>

\* line 221: every feed was attempted, the total is printed
Finish(p) ==
    LET s == proc[p] IN
    /\ s.pc = "feeds"
    /\ s.feedIdx = Len(Feeds(s.variant))
    /\ proc' = [proc EXCEPT ![p] = [ s EXCEPT !.pc = "done", !.last = NoLast ]]
    /\ UNCHANGED << news, sources, cfg >>

Next ==
    \E p \in Procs :
        \/ \E v \in Variants : StartRun(p, v)
        \/ ParseFeed(p)
        \/ InsertSource(p)
        \/ StoreAbort(p)
        \/ SkipMissing(p)
        \/ SkipDuplicate(p)
        \/ PassDedupe(p)
        \/ SkipThin(p)
        \/ Persist(p)
        \/ ClassifyAbort(p)
        \/ Finish(p)

Spec == Init /\ [][Next]_vars

SpecLabels == InitLabels /\ [][Next]_vars

SpecCap == InitCap /\ [][Next]_vars

\* a completed run followed by the same run on the same inputs
SpecReplay == InitReplay /\ [][Next]_vars

\* two instances interleaved at the granularity of their store requests
SpecConc == InitConc /\ [][Next]_vars

\* =================================================================== claims
\* the news row inserted for the item that instance p handled last
LastRow(p) == news[proc[p].last.row]

Empty == { None, << >> }

\* C1: in every reachable state every news row has status "published" if and
\* only if its category_id is non-null, and status "pending" exactly when
\* its category_id is null.
C1_PublishedIffCategory ==
    \A i \in 1..Len(news) :
        /\ news[i].status \in { "published", "pending" }
        /\ (news[i].status = "published") <=> (news[i].category_id # 0)
        /\ (news[i].status = "pending") <=> (news[i].category_id = 0)

\* a published and a pending row were inserted, over two runs
C1_Witness ==
    /\ proc[1].runs = 2
    /\ \E i, j \in 1..Len(news) :
         /\ news[i].status = "published" /\ news[i].category_id # 0
         /\ news[j].status = "pending" /\ news[j].category_id = 0

\* C2: under sequential execution a candidate whose title equals the title of
\* a row already in news is never inserted, so no two news rows share a title.
C2_TitleNeverTwice ==
    /\ \A i, j \in 1..Len(news) : i # j => news[i].title # news[j].title
    /\ \A p \in Procs :
         proc[p].last.kind = "inserted" =>
            \A i \in 1..Len(news) :
                news[i].title = proc[p].last.title => i = proc[p].last.row

\* a second run met the title of an older row (not the newest) and skipped it
C2_Witness ==
    /\ proc[1].runs = 2
    /\ proc[1].last.kind = "duplicate"
    /\ Len(news) = 2
    /\ news[1].title = proc[1].last.title

\* C3: a candidate is inserted only if its fetched content is present and at
\* least 300 characters long; absent, empty or shorter content is never
\* persisted, whatever the classifier backend would answer.
C3_ThinNeverPersisted ==
    /\ \A i \in 1..Len(news) :
         news[i].content # NoContent /\ news[i].content >= 300
    /\ \A p \in Procs :
         LET l == proc[p].last IN
         /\ l.kind \in { "inserted", "raised" } => l.content >= 300
         /\ (l.kind \in { "thin", "inserted", "raised" } /\ l.content < 300)
               => l.kind = "thin" /\ l.row = 0

\* an article of 299 characters was fetched and skipped
C3_Witness ==
    /\ proc[1].last.kind = "thin"
    /\ proc[1].last.content = 299

\* C4: for a candidate whose title or link is absent or empty, no news row is
\* inserted: the step that handles it leaves news unchanged and takes the
\* missing-fields skip.
C4_MissingNeverPersisted ==
    [][ \A p \in Procs :
          LET l == proc'[p].last IN
          ( /\ proc'[p] # proc[p]
            /\ l.kind # "none"
            /\ (l.title \in Empty \/ l.link \in Empty) )
          => /\ l.kind = "missing"
             /\ l.row = 0
             /\ news' = news ]_vars

\* an entry with a title and an empty link was skipped
C4_Witness ==
    /\ proc[1].last.kind = "missing"
    /\ proc[1].last.title = <<"A">>
    /\ proc[1].last.link = << >>
    /\ Len(news) > 0

\* the label the backend delivered on a call: the prediction field, else the
\* label field (remote), the predicted class (local); None when there is none
RawLabelOf(ans) ==
    IF ans.kind = "json"
    THEN (IF Truthy(ans.prediction) THEN ans.prediction ELSE ans.label)
    ELSE IF ans.kind = "predict" THEN ans.prediction ELSE None

\* the classifier failed: it raised, timed out, answered malformed, or
\* delivered no label or a label that is no string
ClassifierFailed(ans) ==
    \/ ans.kind \notin { "json", "predict" }
    \/ RawLabelOf(ans) \in Empty \cup { NonStr, FalsyNonStr }

\* C5: classify never fails its caller, for either backend: any exception,
\* timeout, malformed response or absent label yields the label "unknown",
\* and the item is persisted with category_id null and status "pending".
C5_ClassifyNeverFails ==
    \A p \in Procs :
        LET l == proc[p].last IN
        (l.kind \in { "inserted", "raised" } /\ ClassifierFailed(l.answer))
            => /\ l.kind = "inserted"
               /\ l.label = <<"u","n","k","n","o","w","n">>
               /\ LastRow(p).category_id = 0
               /\ LastRow(p).status = "pending"

\* C6: a fetch or classify failure on an item never aborts the run: the run
\* goes on with the later items and feeds to the final summary.
C6_RunNeverAborted ==
    \A p \in Procs :
        proc[p].pc = "aborted" => proc[p].error \notin { "fetch", "classify" }

SynonymKeys ==
    { <<"t","e","c","h">>, <<"t","e","c","h","n","o","l","o","g","y">>,
      <<"f","i","n","a","n","c","e">>, <<"e","c","o","n","o","m","i","c","s">>,
      <<"e","c","o","n","o","m","y">>, <<"p","o","l","i","t","i","c","s">>,
      <<"s","p","o","r","t","s">>, <<"h","e","a","l","t","h">>,
      <<"c","u","l","t","u","r","e">> }

\* C7: for every raw classifier label that, lowercased and trimmed, is no key
\* of the synonym table, the row persisted for the item has category_id null
\* and status "pending".
C7_UnmappedIsPending ==
    \A p \in Procs :
        LET l == proc[p].last
            raw == RawLabelOf(l.answer)
        IN  ( /\ l.kind = "inserted"
              /\ IsStr(raw)
              /\ Strip(Lower(raw)) \notin SynonymKeys )
            => /\ LastRow(p).category_id = 0
               /\ LastRow(p).status = "pending"

\* the label "techs" (no key, though a key is its prefix) gave a pending row
C7_Witness ==
    /\ proc[1].last.kind = "inserted"
    /\ RawLabelOf(proc[1].last.answer) = <<"t","e","c","h","s">>
    /\ LastRow(1).status = "pending"

\* the taxonomy id the synonym table gives a key
ExpectedId(k) ==
    CASE k \in { <<"t","e","c","h">>, <<"t","e","c","h","n","o","l","o","g","y">> } -> 3
      [] k \in { <<"f","i","n","a","n","c","e">>, <<"e","c","o","n","o","m","i","c","s">>,
                 <<"e","c","o","n","o","m","y">> } -> 5
      [] k = <<"p","o","l","i","t","i","c","s">> -> 1
      [] k = <<"s","p","o","r","t","s">> -> 2
      [] k = <<"h","e","a","l","t","h">> -> 4
      [] k = <<"c","u","l","t","u","r","e">> -> 6

\* C8: for every raw classifier label that, lowercased and trimmed, is a key
\* of the synonym table, the item is persisted as "published" with the
\* taxonomy id of the mapped category (tech/technology 3,
\* finance/economics/economy 5, politics 1, sports 2, health 4, culture 6).
C8_MappedIsPublished ==
    \A p \in Procs :
        LET l == proc[p].last
            raw == RawLabelOf(l.answer)
        IN  ( /\ l.kind = "inserted"
              /\ IsStr(raw)
              /\ Strip(Lower(raw)) \in SynonymKeys )
            => /\ LastRow(p).status = "published"
               /\ LastRow(p).category_id = ExpectedId(Strip(Lower(raw)))

\* the remote classifier answered "Tech" for 310 characters of content
C8_Witness ==
    /\ proc[1].variant = "main"
    /\ proc[1].last.kind = "inserted"
    /\ proc[1].last.content = 310
    /\ RawLabelOf(proc[1].last.answer) = <<"T","e","c","h">>
    /\ LastRow(1).category_id = 3
    /\ LastRow(1).status = "published"

\* C9: every news row has a category_id that is null or one of the ids
\* 1..6 of the closed taxonomy, whatever the classifier delivers.
C9_CategoryInTaxonomy ==
    \A i \in 1..Len(news) : news[i].category_id \in { 0, 1, 2, 3, 4, 5, 6 }

\* a row with the highest id and a row without category were inserted
C9_Witness ==
    \E i, j \in 1..Len(news) :
        news[i].category_id = 6 /\ news[j].category_id = 0

\* the rows of a sources table that carry the name
RowsNamed(table, name) == { i \in 1..Len(table) : table[i].name = name }

\* C10: under sequential execution get_or_create_source is idempotent per
\* name: no name is ever twice in sources; an invocation that finds the name
\* returns the id of its row and inserts nothing, one that does not find it
\* inserts one row of that name and returns its id, and afterwards the table
\* holds exactly one row of the name.
C10_GetOrCreateIdempotent ==
    [][ /\ \A i, j \in 1..Len(sources') :
              sources'[i].name = sources'[j].name => i = j
        /\ \A p \in Procs :
              LET name == Feeds(proc'[p].variant)[proc'[p].feedIdx]
                  old == RowsNamed(sources, name)
              IN
              /\ proc'[p].feedIdx = proc[p].feedIdx + 1 =>
                    /\ sources' = sources
                    /\ IF old # {}
                       THEN /\ proc'[p].lookup = "hit"
                            /\ proc'[p].pc \in { "items", "feeds" }
                            /\ \E i \in old : proc'[p].source_id = sources[i].id
                       ELSE /\ proc'[p].lookup = "miss"
                            /\ proc'[p].pc = "source"
              /\ ( proc[p].pc = "source" /\ proc'[p].pc \in { "items", "feeds" } ) =>
                    /\ old = {}
                    /\ Len(sources') = Len(sources) + 1
                    /\ SubSeq(sources', 1, Len(sources)) = sources
                    /\ sources'[Len(sources')].name = name
                    /\ sources'[Len(sources')].id = proc'[p].source_id
                    /\ Cardinality(RowsNamed(sources', name)) = 1
              /\ ( proc'[p].pc \in { "items", "fetch" } ) =>
                    \E i \in RowsNamed(sources', name) :
                        sources'[i].id = proc'[p].source_id
      ]_vars

\* a second run looked up its second feed and got the row of the first run
C10_Witness ==
    /\ proc[1].runs = 2
    /\ proc[1].feedIdx = 2
    /\ proc[1].lookup = "hit"
    /\ proc[1].source_id = 2
    /\ Len(sources) = 2

\* C11: in one run only the first 15 entries of a feed are examined: an entry
\* at position 16 or later is never dedupe-checked, fetched, classified or
\* persisted, so at most 15 news rows are inserted per feed per run.
C11_OnlyFirstFifteen ==
    \A p \in Procs :
        LET s == proc[p] IN
        /\ s.itemIdx <= 15
        /\ s.pc \in { "items", "fetch" } => s.itemIdx < 15 /\ s.itemIdx < s.entries
        /\ s.last.kind # "none" => s.itemIdx <= s.entries
        /\ s.added <= 15 * s.feedIdx
        /\ s.last.row # 0 => s.last.row <= 15 * s.feedIdx

\* a feed delivered 17 entries; the run ended with 15 examined and inserted
C11_Witness ==
    /\ proc[1].pc = "done"
    /\ proc[1].entries = 17
    /\ proc[1].itemIdx = 15
    /\ proc[1].added = 15
    /\ Len(news) = 15

\* C12: at every point of a run the counter added equals the number of news
\* rows the run has inserted so far, so the total printed at the end is the
\* number of rows the run added to the table; skipped items are not counted.
C12_AddedCountsInserts ==
    \A p \in Procs :
        LET s == proc[p] IN
        /\ s.added = Cardinality(s.mine)
        /\ \A m \in s.mine : m.row \in 1..Len(news)
        /\ s.runs = 1 => s.added = Len(news)

\* a second run ended after one insert and skips, on top of one older row
C12_Witness ==
    /\ proc[1].runs = 2
    /\ proc[1].pc = "done"
    /\ proc[1].added = 1
    /\ Len(news) = 2

\* C13: whenever the store endpoint or the store credential is absent from
\* the environment the process refuses to start, in both variants: a process
\* whose endpoint or credential did not come from the environment never gets
\* beyond start-up (no feed retrieved, no store access).
C13_RefusesWithoutConfig ==
    \A p \in Procs :
        proc[p].pc \in { "feeds", "source", "items", "fetch", "done" }
            => proc[p].url = "env" /\ proc[p].key = "env"

\* C14: for an article text of any length, the text submitted to the
\* classifier backend, remote or local, has at most 2000 characters.
C14_SubmittedAtMost2000 ==
    \A p \in Procs : proc[p].last.submitted <= MAX_CHARS

\* C15: fetch_full_article never raises to its caller: when the request, the
\* status check or the parse fails, the result is (None, None), the item is
\* skipped as thin content without a classifier call, the run goes on with
\* the next entry and the news table is left as it was.
C15_FetchFailureIsThinSkip ==
    [][ \A p \in Procs :
          ( proc[p].last.fetch = "none" /\ proc'[p].last.fetch \in FetchFailures )
              => /\ proc'[p].last.content = NoContent
                 /\ proc'[p].last.kind = "thin"
                 /\ "classify" \notin { proc'[p].last.ops[i] :
                                           i \in 1..Len(proc'[p].last.ops) }
                 /\ proc'[p].pc \in { "items", "feeds" }
                 /\ proc'[p].itemIdx = proc[p].itemIdx + 1
                 /\ proc'[p].added = proc[p].added
                 /\ news' = news ]_vars

\* the second entry of a feed was skipped after a failed parse, the first
\* one having been inserted
C15_Witness ==
    /\ proc[1].last.fetch = "parse"
    /\ proc[1].last.kind = "thin"
    /\ proc[1].itemIdx = 2
    /\ proc[1].added = 1
    /\ Len(news) = 1

\* C16: the title dedupe relies on non-concurrent access. With two instances
\* interleaved on one store, two news rows of one title are reachable, and
\* they only ever arise in this way: the rows were inserted by different
\* instances, and the instance that inserted the later one had looked the
\* title up before the earlier one was inserted. A title is never stored
\* more often than there are instances.
Inserter(i) == CHOOSE p \in Procs : \E m \in proc[p].mine : m.row = i

SeenAt(i) == (CHOOSE m \in proc[Inserter(i)].mine : m.row = i).seen

C16_DuplicateOnlyByRace ==
    /\ \A i, j \in 1..Len(news) :
          ( i < j /\ news[i].title = news[j].title )
              => Inserter(i) # Inserter(j) /\ SeenAt(j) < i
    /\ \A i \in 1..Len(news) :
          Cardinality({ j \in 1..Len(news) : news[j].title = news[i].title })
              <= Cardinality(cfg.instances)

\* both instances passed already_exists for the title "A" on the empty
\* table and both inserted it
C16_Witness ==
    /\ Len(news) = 2
    /\ news[1].title = <<"A">>
    /\ news[2].title = <<"A">>
    /\ \A p \in Procs : proc[p].added = 1 /\ proc[p].pc = "done"

\* C17: the pipeline is insert-only. Every step leaves the rows that were in
\* news and in sources as they were (no update, no delete, at most one row
\* appended to one of the tables), and a step that skips an item (missing
\* fields, duplicate title, thin content) leaves news entirely unchanged.
C17_InsertOnly ==
    [][ /\ Len(news') \in { Len(news), Len(news) + 1 }
        /\ SubSeq(news', 1, Len(news)) = news
        /\ Len(sources') \in { Len(sources), Len(sources) + 1 }
        /\ SubSeq(sources', 1, Len(sources)) = sources
        /\ news' # news => sources' = sources
        /\ \A p \in Procs :
              ( proc'[p] # proc[p]
                /\ proc'[p].last.kind \in { "missing", "duplicate", "thin" } )
                  => news' = news /\ sources' = sources ]_vars

\* a second run, on its second feed (found in sources), skipped an entry as
\* a duplicate of one of the two stored rows
C17_Witness ==
    /\ proc[1].runs = 2
    /\ proc[1].feedIdx = 2
    /\ proc[1].lookup = "hit"
    /\ proc[1].last.kind = "duplicate"
    /\ Len(news) = 2
    /\ Len(sources) = 2

\* C18: per item the steps are taken in the order missing-field check,
\* dedupe lookup, article fetch, classify, insert, and a step is taken only
\* if every earlier check passed: an item with missing title or link causes
\* no lookup and no fetch, a duplicate title no fetch, and an item skipped as
\* duplicate or thin no classifier call.
StepOrder == <<"dedupe", "fetch", "classify", "insert">>

C18_StepsInOrder ==
    \A p \in Procs :
        LET l == proc[p].last
            o == l.ops
        IN  /\ Len(o) <= Len(StepOrder)
            /\ o = SubSeq(StepOrder, 1, Len(o))
            /\ l.kind = "missing" => o = << >> /\ l.fetch = "none"
            /\ l.kind = "duplicate" => o = <<"dedupe">> /\ l.fetch = "none"
            /\ l.kind = "thin" => o = <<"dedupe", "fetch">> /\ l.submitted = NoContent
            /\ l.kind = "raised" => o = <<"dedupe", "fetch", "classify">>
            /\ l.kind = "inserted" => o = StepOrder
            /\ l.kind \in { "missing", "duplicate" }
                  => l.content = NoContent /\ l.submitted = NoContent
            /\ proc[p].pc = "fetch" => o = <<"dedupe">> /\ l.fetch = "none"

\* the local-model variant skipped a fetched page of 299 characters after
\* the lookup and the fetch
C18_Witness ==
    /\ proc[1].variant = "rss_ingest"
    /\ proc[1].last.kind = "thin"
    /\ proc[1].last.content = MinContentLen - 1
    /\ proc[1].last.ops = <<"dedupe", "fetch">>
    /\ Len(news) = 1

\* C19: a completed run followed at once by a second run of the same script
\* that is delivered the same feed entries and the same fetch results: no
\* step of the second run inserts a news row or a sources row, its counter
\* stays 0, so the count it reports when it reaches the end is 0; every entry
\* is skipped, none is classified. The second run ends early only when the
\* script refuses to start, the model files fail to load or a store request
\* raises, and inserts nothing then either.
C19_ReplayInsertsNothing ==
    [][ \A p \in Procs :
          ( proc'[p].runs > 1 /\ proc'[p] # proc[p] )
              => /\ news' = news
                 /\ sources' = sources
                 /\ proc'[p].added = 0
                 /\ proc'[p].mine = {}
                 /\ proc'[p].pc = "aborted"
                        => proc'[p].error \in { "load", "store" }
                 /\ proc'[p].last.kind \in { "none", "missing", "duplicate",
                                              "passed", "thin" } ]_vars

\* the second run is over: it went through both feeds again, found both
\* sources rows and skipped every entry
C19_Witness ==
    /\ proc[1].runs = 2
    /\ proc[1].pc = "done"
    /\ proc[1].added = 0
    /\ Len(proc[1].tape) = 2
    /\ Len(news) = 3
    /\ Len(sources) = 2

\* C20: referential integrity. Whenever a news row is inserted, its source_id
\* is the id of a row that is in sources before the insert and that carries
\* the name of the feed the inserting instance is at; thereafter every news
\* row refers to exactly one sources row.
C20_SourceIdRefersToFeed ==
    [][ /\ Len(news') = Len(news) + 1 =>
              \E p \in Procs :
                  /\ proc[p].pc = "fetch"
                  /\ proc'[p].last.row = Len(news')
                  /\ proc[p].feedIdx \in 1..Len(Feeds(proc[p].variant))
                  /\ \E j \in 1..Len(sources) :
                        /\ sources[j].id = news'[Len(news')].source_id
                        /\ sources[j].name =
                               Feeds(proc[p].variant)[proc[p].feedIdx]
        /\ \A i \in 1..Len(news') :
              Cardinality({ j \in 1..Len(sources') :
                              sources'[j].id = news'[i].source_id }) = 1 ]_vars

\* an article of the second feed was stored under the second sources row,
\* after one of the first feed under the first
C20_Witness ==
    /\ proc[1].feedIdx = 2
    /\ proc[1].last.kind = "inserted"
    /\ Len(news) = 2
    /\ Len(sources) = 2
    /\ news[1].source_id = sources[1].id
    /\ news[2].source_id = sources[2].id

====
